---- MODULE Spec2Model ----
(***************************************************************************)
(* Model of vvn/ops/src/tf_nndistance_2.cpp: the NnDistance2 forward op    *)
(* (brute-force bilateral nearest-neighbour search over 6-d points) and    *)
(* the NnDistance2Grad backward op (gradient scatter).                     *)
(*                                                                         *)
(* A tensor is a record [shape, data]: shape is the sequence of dimension  *)
(* sizes, data the flat row-major buffer, a function on 0..size-1 (the     *)
(* offsets the C++ code computes).  Coordinates and gradients are small    *)
(* integers, on which the float/double arithmetic of the source is exact.  *)
(***************************************************************************)
EXTENDS Integers, Sequences, FiniteSets, TLC

VARIABLES op, dev, inputs, outputs, status, pc, b, n, m, pos, call, saved, events

vars == <<op, dev, inputs, outputs, status, pc, b, n, m, pos, call, saved, events>>

(* Bounds on a forward call: B*(N+M) <= MaxTotal and N+M <= MaxPoints. *)
MaxTotal == 6
MaxPoints == 4

(* Bounds on a backward call: B*(N+M) <= MaxGradTotal and B*N*M <= MaxGradPairs. *)
MaxGradTotal == 4
MaxGradPairs == 4

(* Bound on a backward call run by parallel workers: B*(N+M) <= MaxScatterTotal. *)
MaxScatterTotal == 3

(* The 6-d points the inputs are drawn from. *)
Points == { <<0, 0, 0, 0, 0, 0>>, <<1, 0, 0, 0, 0, 0>>, <<1, 1, -1, 2, 1, -2>> }

(* Contents of freshly allocated (uninitialised) output memory. *)
Garbage == {0, 7}

RECURSIVE NumElements(_)
NumElements(shape) ==
    IF shape = <<>> THEN 1 ELSE Head(shape) * NumElements(Tail(shape))

Tensor(shape, data) == [shape |-> shape, data |-> data]

(* A [.., 6] tensor holding the points pts[0], pts[1], ... in row-major order. *)
Flat(pts, count) == [o \in 0..(count * 6 - 1) |-> pts[o \div 6][(o % 6) + 1]]

Filled(shape, v) == Tensor(shape, [o \in 0..(NumElements(shape) - 1) |-> v])

(* context->input(k) *)
xyz1_tensor == inputs[1]
xyz2_tensor == inputs[2]
grad_dist1_tensor == inputs[3]
idx1_tensor == inputs[4]
grad_dist2_tensor == inputs[5]
idx2_tensor == inputs[6]

(* Values of the upstream gradients grad_dist1, grad_dist2. *)
GradVals == {0, 1}

NoEvents == [alloc |-> 0, steps |-> 0, writes |-> 0]

-----------------------------------------------------------------------------
(* nnsearch, lines 23-51 *)

(* line 41: the squared 6-d distance of xyz1[i,j] and xyz2[i,k] *)
SqDist(xyz1, xyz2, o1, o2) ==
    LET x2   == xyz2[o2 + 0] - xyz1[o1 + 0]
        y2   == xyz2[o2 + 1] - xyz1[o1 + 1]
        z2   == xyz2[o2 + 2] - xyz1[o1 + 2]
        x2_1 == xyz2[o2 + 3] - xyz1[o1 + 3]
        y2_1 == xyz2[o2 + 4] - xyz1[o1 + 4]
        z2_1 == xyz2[o2 + 5] - xyz1[o1 + 5]
    IN  x2 * x2 + y2 * y2 + z2 * z2 + x2_1 * x2_1 + y2_1 * y2_1 + z2_1 * z2_1

ImprovesOrEqual(k, d, best) == k = 0 \/ d <= best

ImprovesWrongWay(k, d, best) == k = 0 \/ d > best

(* line 42: the incumbent is replaced by candidate k *)
Improves(k, d, best) == k = 0 \/ d < best

(* lines 32-46: the scan over k -- k..mm-1 still to go -- of point (i,j) *)
RECURSIVE ScanK(_, _, _, _, _, _, _, _, _)
ScanK(k, i, j, nn, mm, xyz1, xyz2, best, besti) ==
    IF k >= mm THEN [best |-> best, besti |-> besti]
    ELSE LET d == SqDist(xyz1, xyz2, (i * nn + j) * 6, (i * mm + k) * 6)
         IN  IF Improves(k, d, best)
             THEN ScanK(k + 1, i, j, nn, mm, xyz1, xyz2, d, k)
             ELSE ScanK(k + 1, i, j, nn, mm, xyz1, xyz2, best, besti)

(* lines 26-48: one iteration of the j loop; dist and idx are the two     *)
(* output buffers, returned updated                                        *)
NnsearchPoint(i, j, nn, mm, xyz1, xyz2, dist, idx) ==
    LET r == ScanK(0, i, j, nn, mm, xyz1, xyz2, 0, 0)
    IN  [dist |-> [dist EXCEPT ![i * nn + j] = r.best],
         idx  |-> [idx  EXCEPT ![i * nn + j] = r.besti]]

(* lines 24-50: the whole call, iterations p..bb*nn-1 of the (i,j) loops   *)
(* in row-major order still to go                                          *)
RECURSIVE nnsearch(_, _, _, _, _, _, _, _)
nnsearch(p, bb, nn, mm, xyz1, xyz2, dist, idx) ==
    IF p >= bb * nn THEN [dist |-> dist, idx |-> idx]
    ELSE LET r == NnsearchPoint(p \div nn, p % nn, nn, mm, xyz1, xyz2, dist, idx)
         IN  nnsearch(p + 1, bb, nn, mm, xyz1, xyz2, r.dist, r.idx)

-----------------------------------------------------------------------------
(* NnDistance2Op::Compute, lines 56-89 (DEVICE_CPU) *)

NnDistance2Op_RequiresNoBatchCheck(x1, x2) ==
    /\ Len(x1.shape) = 3
    /\ x1.shape[3] = 6
    /\ Len(x2.shape) = 3
    /\ x2.shape[3] = 6

(* lines 59-66: the OP_REQUIRES checks, in order; the first that fails     *)
(* ends the call with errors::InvalidArgument                              *)
NnDistance2Op_Requires(x1, x2) ==
    /\ Len(x1.shape) = 3
    /\ x1.shape[3] = 6
    /\ Len(x2.shape) = 3
    /\ x2.shape[3] = 6
    /\ x2.shape[1] = x1.shape[1]

NnDistance2Op_Validate ==
    /\ pc = "start" /\ op = "forward" /\ dev = "CPU"
    /\ IF NnDistance2Op_Requires(xyz1_tensor, xyz2_tensor)
       THEN /\ b' = xyz1_tensor.shape[1]
            /\ n' = xyz1_tensor.shape[2]
            /\ m' = xyz2_tensor.shape[2]
            /\ pc' = "alloc"
            /\ UNCHANGED status
       ELSE /\ status' = "InvalidArgument"
            /\ pc' = "done"
            /\ UNCHANGED <<b, n, m>>
    /\ UNCHANGED <<op, dev, inputs, outputs, pos, call, saved, events>>

(* lines 75-80: allocate_output(0..3) with shapes {b,n},{b,n},{b,m},{b,m}; *)
(* the memory is not initialised                                           *)
ForwardOutputs(bb, nn, mm, g) ==
    [k \in 0..3 |-> Filled(IF k < 2 THEN <<bb, nn>> ELSE <<bb, mm>>, g)]

NnDistance2Op_Allocate ==
    /\ pc = "alloc" /\ op = "forward" /\ dev = "CPU"
    /\ \E g \in Garbage : outputs' = ForwardOutputs(b, n, m, g)
    /\ events' = [events EXCEPT !.alloc = @ + 4]
    /\ pc' = "search1"
    /\ pos' = [s1 |-> 0, s2 |-> 0]
    /\ UNCHANGED <<op, dev, inputs, status, b, n, m, call, saved>>

(* line 87: nnsearch(b,n,m,xyz1,xyz2,dist1,idx1), one (i,j) iteration *)
Search1Point ==
    LET r == NnsearchPoint(pos.s1 \div n, pos.s1 % n, n, m,
                           xyz1_tensor.data, xyz2_tensor.data,
                           outputs[0].data, outputs[1].data)
    IN  /\ pos.s1 < b * n
        /\ outputs' = [outputs EXCEPT ![0].data = r.dist, ![1].data = r.idx]
        /\ pos' = [pos EXCEPT !.s1 = @ + 1]
        /\ events' = [events EXCEPT !.steps = @ + 1, !.writes = @ + 2]

Search2PointOutputsExchanged ==
    LET r == NnsearchPoint(pos.s2 \div m, pos.s2 % m, m, n,
                           xyz2_tensor.data, xyz1_tensor.data,
                           outputs[3].data, outputs[2].data)
    IN  /\ pos.s2 < b * m
        /\ outputs' = [outputs EXCEPT ![3].data = r.dist, ![2].data = r.idx]
        /\ pos' = [pos EXCEPT !.s2 = @ + 1]
        /\ events' = [events EXCEPT !.steps = @ + 1, !.writes = @ + 2]

Search2PointSharedOutputs ==
    LET r == NnsearchPoint(pos.s2 \div m, pos.s2 % m, m, n,
                           xyz2_tensor.data, xyz1_tensor.data,
                           outputs[0].data, outputs[1].data)
    IN  /\ pos.s2 < b * m
        /\ outputs' = [outputs EXCEPT ![0].data = r.dist, ![1].data = r.idx]
        /\ pos' = [pos EXCEPT !.s2 = @ + 1]
        /\ events' = [events EXCEPT !.steps = @ + 1, !.writes = @ + 2]

(* line 88: nnsearch(b,m,n,xyz2,xyz1,dist2,idx2), one (i,j) iteration *)
Search2Point ==
    LET r == NnsearchPoint(pos.s2 \div m, pos.s2 % m, m, n,
                           xyz2_tensor.data, xyz1_tensor.data,
                           outputs[2].data, outputs[3].data)
    IN  /\ pos.s2 < b * m
        /\ outputs' = [outputs EXCEPT ![2].data = r.dist, ![3].data = r.idx]
        /\ pos' = [pos EXCEPT !.s2 = @ + 1]
        /\ events' = [events EXCEPT !.steps = @ + 1, !.writes = @ + 2]

Search1Step ==
    /\ pc = "search1"
    /\ Search1Point
    /\ UNCHANGED <<op, dev, inputs, status, pc, b, n, m, call, saved>>

(* the loops of line 87 are over; line 88 is called *)
Search1Return ==
    /\ pc = "search1"
    /\ pos.s1 >= b * n
    /\ pc' = "search2"
    /\ UNCHANGED <<op, dev, inputs, outputs, status, b, n, m, pos, call, saved, events>>

Search2Step ==
    /\ pc = "search2"
    /\ Search2Point
    /\ UNCHANGED <<op, dev, inputs, status, pc, b, n, m, call, saved>>

(* line 89: Compute returns *)
Search2Return ==
    /\ pc = "search2"
    /\ pos.s2 >= b * m
    /\ pc' = "done"
    /\ UNCHANGED <<op, dev, inputs, outputs, status, b, n, m, pos, call, saved, events>>

-----------------------------------------------------------------------------
(* NnDistance2GpuOp::Compute, lines 204-236 (DEVICE_GPU) *)

(* lines 207-214 *)
NnDistance2GpuOp_Requires(x1, x2) ==
    /\ Len(x1.shape) = 3
    /\ x1.shape[3] = 6
    /\ Len(x2.shape) = 3
    /\ x2.shape[3] = 6
    /\ x2.shape[1] = x1.shape[1]

NnDistance2GpuOp_Validate ==
    /\ pc = "start" /\ op = "forward" /\ dev = "GPU"
    /\ IF NnDistance2GpuOp_Requires(xyz1_tensor, xyz2_tensor)
       THEN /\ b' = xyz1_tensor.shape[1]
            /\ n' = xyz1_tensor.shape[2]
            /\ m' = xyz2_tensor.shape[2]
            /\ pc' = "alloc"
            /\ UNCHANGED status
       ELSE /\ status' = "InvalidArgument"
            /\ pc' = "done"
            /\ UNCHANGED <<b, n, m>>
    /\ UNCHANGED <<op, dev, inputs, outputs, pos, call, saved, events>>

(* lines 223-228 *)
NnDistance2GpuOp_Allocate ==
    /\ pc = "alloc" /\ op = "forward" /\ dev = "GPU"
    /\ \E g \in Garbage : outputs' = ForwardOutputs(b, n, m, g)
    /\ events' = [events EXCEPT !.alloc = @ + 4]
    /\ pc' = "launch"
    /\ UNCHANGED <<op, dev, inputs, status, b, n, m, pos, call, saved>>

(* The contract of spec section 4.1 for one direction: the lowest index    *)
(* among the nearest points of the other set, and its distance.  Nothing   *)
(* is written for a source point when the other set is empty.              *)
Nearest(bb, nn, mm, xyz1, xyz2, dist, idx) ==
    LET D(o, k) == SqDist(xyz1, xyz2, o * 6, ((o \div nn) * mm + k) * 6)
        Arg(o)  == CHOOSE k \in 0..(mm - 1) :
                       /\ \A q \in 0..(mm - 1) : D(o, k) <= D(o, q)
                       /\ \A q \in 0..(k - 1) : D(o, q) > D(o, k)
    IN  IF mm = 0 THEN [dist |-> dist, idx |-> idx]
        ELSE [dist |-> [o \in DOMAIN dist |-> D(o, Arg(o))],
              idx  |-> [o \in DOMAIN idx |-> Arg(o)]]

(* line 235: NmDistance2KernelLauncher, whose definition (the .cu file) is *)
(* not part of the sources; it is taken to meet the contract               *)
NmDistance2KernelLauncher ==
    /\ pc = "launch" /\ op = "forward" /\ dev = "GPU"
    /\ LET r1 == Nearest(b, n, m, xyz1_tensor.data, xyz2_tensor.data,
                         outputs[0].data, outputs[1].data)
           r2 == Nearest(b, m, n, xyz2_tensor.data, xyz1_tensor.data,
                         outputs[2].data, outputs[3].data)
       IN  outputs' = [outputs EXCEPT ![0].data = r1.dist, ![1].data = r1.idx,
                                      ![2].data = r2.dist, ![3].data = r2.idx]
    /\ events' = [events EXCEPT !.steps = @ + 1]
    /\ pc' = "done"
    /\ UNCHANGED <<op, dev, inputs, status, b, n, m, pos, call, saved>>

-----------------------------------------------------------------------------
(* The caller of spec section 8 (symmetry): once a CPU forward call has    *)
(* returned, the op is called again with the two inputs exchanged; saved   *)
(* keeps the outputs of the first call.                                    *)
SwapInvoke ==
    /\ pc = "done" /\ op = "forward" /\ dev = "CPU" /\ call = 1
    /\ status = "OK"
    /\ saved' = outputs
    /\ inputs' = <<inputs[2], inputs[1]>>
    /\ outputs' = <<>>
    /\ call' = 2
    /\ pc' = "start"
    /\ pos' = [s1 |-> 0, s2 |-> 0]
    /\ events' = NoEvents
    /\ UNCHANGED <<op, dev, status, b, n, m>>

-----------------------------------------------------------------------------
(* The forward calls: every pair of valid point sets with B*(N+M) <=       *)
(* MaxTotal and N+M <= MaxPoints, and calls with ill-shaped inputs.        *)

FwdShapes == { s \in (0..MaxTotal) \X (0..MaxPoints) \X (0..MaxPoints) :
                   s[1] * (s[2] + s[3]) <= MaxTotal /\ s[2] + s[3] <= MaxPoints }

PointSet(bb, nn, pts) == Tensor(<<bb, nn, 6>>, Flat(pts, bb * nn))

ShapePool == { <<6>>, <<1, 6>>, <<1, 1, 6, 1>>, <<1, 1, 5>>, <<1, 6, 1>>,
               <<1, 1, 6>>, <<2, 1, 6>>, <<1, 2, 6>>, <<0, 1, 6>> }

IdleCall ==
    /\ outputs = <<>>
    /\ status = "OK"
    /\ pc = "start"
    /\ b = 0 /\ n = 0 /\ m = 0
    /\ pos = [s1 |-> 0, s2 |-> 0]
    /\ call = 1
    /\ saved = <<>>
    /\ events = NoEvents

ValidForwardInputs ==
    \E s \in FwdShapes :
        \E p1 \in [0..(s[1] * s[2] - 1) -> Points], p2 \in [0..(s[1] * s[3] - 1) -> Points] :
            inputs = <<PointSet(s[1], s[2], p1), PointSet(s[1], s[3], p2)>>

(* The shape contract of spec section 4.1: both inputs of rank 3, trailing  *)
(* dimension 6, equal batch sizes.                                         *)
WellShaped(s1, s2) ==
    /\ Len(s1) = 3 /\ Len(s2) = 3
    /\ s1[3] = 6 /\ s2[3] = 6
    /\ s1[1] = s2[1]

IllShapedForwardInputs ==
    \E s1 \in ShapePool, s2 \in ShapePool :
        /\ ~WellShaped(s1, s2)
        /\ inputs = <<Filled(s1, 0), Filled(s2, 0)>>

Init ==
    /\ op = "forward"
    /\ dev \in {"CPU", "GPU"}
    /\ ValidForwardInputs \/ IllShapedForwardInputs
    /\ IdleCall

Next ==
    \/ NnDistance2Op_Validate
    \/ NnDistance2Op_Allocate
    \/ Search1Step
    \/ Search1Return
    \/ Search2Step
    \/ Search2Return
    \/ NnDistance2GpuOp_Validate
    \/ NnDistance2GpuOp_Allocate
    \/ NmDistance2KernelLauncher
    \/ SwapInvoke

Spec == Init /\ [][Next]_vars

-----------------------------------------------------------------------------
(* Notation of the properties: elements of [B,N] and [B,N,6] tensors by    *)
(* their indices, and the squared 6-d distance of spec section 4.1.        *)

El2(t, i, j) == t.data[i * t.shape[2] + j]

El3(t, i, j, c) == t.data[(i * t.shape[2] + j) * t.shape[3] + c]

Sq(x) == x * x

squaredDist6D(P, i, j, Q, k) ==
    Sq(El3(P, i, j, 0) - El3(Q, i, k, 0)) + Sq(El3(P, i, j, 1) - El3(Q, i, k, 1))
    + Sq(El3(P, i, j, 2) - El3(Q, i, k, 2)) + Sq(El3(P, i, j, 3) - El3(Q, i, k, 3))
    + Sq(El3(P, i, j, 4) - El3(Q, i, k, 4)) + Sq(El3(P, i, j, 5) - El3(Q, i, k, 5))

Rows(t) == 0..(t.shape[1] - 1)
Cols(t) == 0..(t.shape[2] - 1)

(* a CPU forward call has returned successfully *)
ForwardReturned ==
    op = "forward" /\ dev = "CPU" /\ pc = "done" /\ status = "OK"

(* idx[i,j] minimises the distance of P[i,j] to the points of Q[i], and    *)
(* dist[i,j] is that distance                                              *)
IsArgMin(P, Q, dist, idx) ==
    \A i \in Rows(P), j \in Cols(P) :
        LET k == El2(idx, i, j)
        IN  /\ k \in Cols(Q)
            /\ \A q \in Cols(Q) : squaredDist6D(P, i, j, Q, k) <= squaredDist6D(P, i, j, Q, q)
            /\ El2(dist, i, j) = squaredDist6D(P, i, j, Q, k)

(* C1: after a forward call with N >= 1 and M >= 1, idx1[i,j] is an index  *)
(* k minimising squaredDist6D(xyz1[i,j], xyz2[i,k]) and dist1[i,j] is the  *)
(* minimum; likewise (dist2, idx2) with xyz1 and xyz2 exchanged.           *)
C1_NearestNeighbour ==
    (ForwardReturned /\ xyz1_tensor.shape[2] >= 1 /\ xyz2_tensor.shape[2] >= 1)
        => /\ IsArgMin(xyz1_tensor, xyz2_tensor, outputs[0], outputs[1])
           /\ IsArgMin(xyz2_tensor, xyz1_tensor, outputs[2], outputs[3])

(* C1's case: in the second batch a point's nearest neighbour is neither   *)
(* the first nor the last candidate, at a non-zero distance *)
C1_Witness ==
    /\ ForwardReturned
    /\ xyz1_tensor.shape = <<2, 1, 6>> /\ xyz2_tensor.shape = <<2, 2, 6>>
    /\ El2(outputs[1], 1, 0) = 1 /\ El2(outputs[0], 1, 0) = 1
    /\ El2(outputs[3], 1, 1) = 0 /\ El2(outputs[2], 1, 0) > 1

(* the candidates of Q[i] at minimal distance from P[i,j] *)
Ties(P, i, j, Q) ==
    { k \in Cols(Q) : \A q \in Cols(Q) :
          squaredDist6D(P, i, j, Q, k) <= squaredDist6D(P, i, j, Q, q) }

IsLowestTie(P, Q, idx) ==
    \A i \in Rows(P), j \in Cols(P) :
        /\ El2(idx, i, j) \in Ties(P, i, j, Q)
        /\ \A k \in Ties(P, i, j, Q) : El2(idx, i, j) <= k

(* C2: among the candidates at exactly the minimal distance the search     *)
(* returns the lowest index, so the index is determined by the inputs.     *)
C2_LowestIndexAmongTies ==
    (ForwardReturned /\ xyz1_tensor.shape[2] >= 1 /\ xyz2_tensor.shape[2] >= 1)
        => /\ IsLowestTie(xyz1_tensor, xyz2_tensor, outputs[1])
           /\ IsLowestTie(xyz2_tensor, xyz1_tensor, outputs[3])

(* C2's case: candidates 1 and 2 tie at the minimum, candidate 0 is        *)
(* farther, and 1 is returned *)
C2_Witness ==
    /\ ForwardReturned
    /\ xyz1_tensor.shape = <<1, 1, 6>> /\ xyz2_tensor.shape = <<1, 3, 6>>
    /\ Ties(xyz1_tensor, 0, 0, xyz2_tensor) = {1, 2}
    /\ El2(outputs[1], 0, 0) = 1

IndexInRange(idx, count) ==
    \A o \in DOMAIN idx.data : idx.data[o] >= 0 /\ idx.data[o] < count

(* C3: after a forward call that passes validation every element of idx1   *)
(* is in [0,M) and every element of idx2 in [0,N), for all accepted B, N,  *)
(* M, empty point sets included.                                           *)
C3_IndexInRange ==
    ForwardReturned
        => /\ IndexInRange(outputs[1], xyz2_tensor.shape[2])
           /\ IndexInRange(outputs[3], xyz1_tensor.shape[2])

(* C4: forward(Q, P) returns (dist2, idx2, dist1, idx1) of forward(P, Q).  *)
C4_ForwardSymmetry ==
    (ForwardReturned /\ call = 2)
        => /\ outputs[0] = saved[2] /\ outputs[1] = saved[3]
           /\ outputs[2] = saved[0] /\ outputs[3] = saved[1]

(* C4's case: the exchanged call has returned, for two point sets of       *)
(* different sizes whose two output pairs differ *)
C4_Witness ==
    /\ ForwardReturned /\ call = 2
    /\ xyz1_tensor.shape = <<2, 2, 6>> /\ xyz2_tensor.shape = <<2, 1, 6>>
    /\ El2(outputs[0], 1, 0) # El2(outputs[0], 1, 1)
    /\ El2(outputs[3], 1, 0) = 1

(* C5: a forward call (CPU or GPU) whose inputs break the shape contract   *)
(* ends with an invalid-argument failure, with no output allocated or      *)
(* written and no search step run.                                         *)
C5_ForwardFailsFast ==
    op = "forward" =>
        /\ (~WellShaped(xyz1_tensor.shape, xyz2_tensor.shape) /\ pc # "start")
               => (pc = "done" /\ status = "InvalidArgument")
        /\ (~WellShaped(xyz1_tensor.shape, xyz2_tensor.shape) \/ status = "InvalidArgument")
               => (DOMAIN outputs = {} /\ events = NoEvents)

(* C5's case: a GPU call with rank-3, 6-d inputs of different batch sizes  *)
(* has failed *)
C5_Witness ==
    /\ op = "forward" /\ dev = "GPU" /\ pc = "done"
    /\ status = "InvalidArgument"
    /\ xyz1_tensor.shape = <<1, 2, 6>> /\ xyz2_tensor.shape = <<2, 1, 6>>

(* one of B, N, M is zero *)
ZeroLengthDimension ==
    xyz1_tensor.shape[1] = 0 \/ xyz1_tensor.shape[2] = 0 \/ xyz2_tensor.shape[2] = 0

(* C11: a CPU forward call that passes validation with B = 0, N = 0 or     *)
(* M = 0 returns without running a search step (an iteration of nnsearch's *)
(* j loop, which reads the source point) and without writing an output     *)
(* element.                                                                *)
C11_ZeroLengthReturnsEmpty ==
    (ForwardReturned /\ ZeroLengthDimension)
        => (events.steps = 0 /\ events.writes = 0)

-----------------------------------------------------------------------------
(* NnDistance2GradOp::Compute, lines 95-196 (DEVICE_CPU) *)

NnDistance2GradOp_RequiresNoIdx2Check(x1, x2, gd1, i1, gd2, i2) ==
    /\ Len(x1.shape) = 3
    /\ x1.shape[3] = 6
    /\ Len(x2.shape) = 3
    /\ x2.shape[3] = 6
    /\ x2.shape[1] = x1.shape[1]
    /\ gd1.shape = <<x1.shape[1], x1.shape[2]>>
    /\ i1.shape = <<x1.shape[1], x1.shape[2]>>
    /\ gd2.shape = <<x1.shape[1], x2.shape[2]>>

(* lines 102-113: the OP_REQUIRES checks, in order *)
NnDistance2GradOp_Requires(x1, x2, gd1, i1, gd2, i2) ==
    /\ Len(x1.shape) = 3
    /\ x1.shape[3] = 6
    /\ Len(x2.shape) = 3
    /\ x2.shape[3] = 6
    /\ x2.shape[1] = x1.shape[1]
    /\ gd1.shape = <<x1.shape[1], x1.shape[2]>>
    /\ i1.shape = <<x1.shape[1], x1.shape[2]>>
    /\ gd2.shape = <<x1.shape[1], x2.shape[2]>>
    /\ i2.shape = <<x1.shape[1], x2.shape[2]>>

NnDistance2GradOp_Validate ==
    /\ pc = "start" /\ op = "backward" /\ dev = "CPU"
    /\ IF NnDistance2GradOp_Requires(xyz1_tensor, xyz2_tensor, grad_dist1_tensor,
                                     idx1_tensor, grad_dist2_tensor, idx2_tensor)
       THEN /\ b' = xyz1_tensor.shape[1]
            /\ n' = xyz1_tensor.shape[2]
            /\ m' = xyz2_tensor.shape[2]
            /\ pc' = "alloc"
            /\ UNCHANGED status
       ELSE /\ status' = "InvalidArgument"
            /\ pc' = "done"
            /\ UNCHANGED <<b, n, m>>
    /\ UNCHANGED <<op, dev, inputs, outputs, pos, call, saved, events>>

(* lines 127, 129: allocate_output(0, {b,n,6}), allocate_output(1, {b,m,6}) *)
GradOutputs(bb, nn, mm, g) ==
    [k \in 0..1 |-> Filled(IF k = 0 THEN <<bb, nn, 6>> ELSE <<bb, mm, 6>>, g)]

NnDistance2GradOp_Allocate ==
    /\ pc = "alloc" /\ op = "backward" /\ dev = "CPU"
    /\ \E g \in Garbage : outputs' = GradOutputs(b, n, m, g)
    /\ events' = [events EXCEPT !.alloc = @ + 2]
    /\ pc' = "zero"
    /\ UNCHANGED <<op, dev, inputs, status, b, n, m, pos, call, saved>>

(* the loop position following (i, dir, j): the j loop of lines 139-166    *)
(* (dir 1), then the j loop of lines 167-194 (dir 2), inside the i loop    *)
(* of line 138; i = bb when the loops are over                             *)
RECURSIVE LoopPos(_, _, _, _, _, _)
LoopPos(i, dir, j, bb, nn, mm) ==
    IF i >= bb THEN [i |-> bb, dir |-> 1, j |-> 0]
    ELSE IF dir = 1
         THEN IF j < nn THEN [i |-> i, dir |-> 1, j |-> j]
              ELSE LoopPos(i, 2, 0, bb, nn, mm)
         ELSE IF j < mm THEN [i |-> i, dir |-> 2, j |-> j]
              ELSE LoopPos(i + 1, 1, 0, bb, nn, mm)

ZeroFillFirstBufferOnly ==
    /\ pc = "zero"
    /\ outputs' = [outputs EXCEPT ![0].data = [o \in DOMAIN @ |-> 0]]
    /\ events' = [events EXCEPT !.writes = @ + b * n * 6]
    /\ pc' = "scatter"
    /\ pos' = LoopPos(0, 1, 0, b, n, m)
    /\ UNCHANGED <<op, dev, inputs, status, b, n, m, call, saved>>

(* lines 134-137: both output buffers are set to zero *)
ZeroFill ==
    /\ pc = "zero"
    /\ outputs' = [k \in 0..1 |-> [outputs[k] EXCEPT !.data = [o \in DOMAIN @ |-> 0]]]
    /\ events' = [events EXCEPT !.writes = @ + b * n * 6 + b * m * 6]
    /\ pc' = "scatter"
    /\ pos' = LoopPos(0, 1, 0, b, n, m)
    /\ UNCHANGED <<op, dev, inputs, status, b, n, m, call, saved>>

GradientNotDoubled(gd) == gd

(* lines 153, 181: g = grad_dist[..] * 2 *)
Gradient(gd) == gd * 2

MinusAssignTypo(x, v) == 0 - v

PlusAssignOverwrites(x, v) == v

(* x += v and x -= v *)
PlusAssign(x, v) == x + v
MinusAssign(x, v) == x - v

(* lines 140-165: one iteration of the first j loop; returns the two       *)
(* gradient buffers updated.  o1 and o2 are the offsets of point j of      *)
(* xyz1 and of point j2 = idx1[i*n+j] of xyz2.                             *)
ScatterPoint1(i, j, nn, mm, xyz1, xyz2, idx1, grad_dist1, grad_xyz1, grad_xyz2) ==
    LET o1 == (i * nn + j) * 6
        j2 == idx1[i * nn + j]
        o2 == (i * mm + j2) * 6
        g  == Gradient(grad_dist1[i * nn + j])
        D(c) == g * (xyz1[o1 + c] - xyz2[o2 + c])
    IN  [grad_xyz1 |-> [grad_xyz1 EXCEPT ![o1 + 0] = PlusAssign(@, D(0)),
                                         ![o1 + 1] = PlusAssign(@, D(1)),
                                         ![o1 + 2] = PlusAssign(@, D(2)),
                                         ![o1 + 3] = PlusAssign(@, D(3)),
                                         ![o1 + 4] = PlusAssign(@, D(4)),
                                         ![o1 + 5] = PlusAssign(@, D(5))],
         grad_xyz2 |-> [grad_xyz2 EXCEPT ![o2 + 0] = MinusAssign(@, D(0)),
                                         ![o2 + 1] = MinusAssign(@, D(1)),
                                         ![o2 + 2] = MinusAssign(@, D(2)),
                                         ![o2 + 3] = MinusAssign(@, D(3)),
                                         ![o2 + 4] = MinusAssign(@, D(4)),
                                         ![o2 + 5] = MinusAssign(@, D(5))]]

(* lines 168-193: one iteration of the second j loop; o1 and o2 are the    *)
(* offsets of point j of xyz2 and of point j2 = idx2[i*m+j] of xyz1.       *)
ScatterPoint2(i, j, nn, mm, xyz1, xyz2, idx2, grad_dist2, grad_xyz1, grad_xyz2) ==
    LET o1 == (i * mm + j) * 6
        j2 == idx2[i * mm + j]
        o2 == (i * nn + j2) * 6
        g  == Gradient(grad_dist2[i * mm + j])
        D(c) == g * (xyz2[o1 + c] - xyz1[o2 + c])
    IN  [grad_xyz2 |-> [grad_xyz2 EXCEPT ![o1 + 0] = PlusAssign(@, D(0)),
                                         ![o1 + 1] = PlusAssign(@, D(1)),
                                         ![o1 + 2] = PlusAssign(@, D(2)),
                                         ![o1 + 3] = PlusAssign(@, D(3)),
                                         ![o1 + 4] = PlusAssign(@, D(4)),
                                         ![o1 + 5] = PlusAssign(@, D(5))],
         grad_xyz1 |-> [grad_xyz1 EXCEPT ![o2 + 0] = MinusAssign(@, D(0)),
                                         ![o2 + 1] = MinusAssign(@, D(1)),
                                         ![o2 + 2] = MinusAssign(@, D(2)),
                                         ![o2 + 3] = MinusAssign(@, D(3)),
                                         ![o2 + 4] = MinusAssign(@, D(4)),
                                         ![o2 + 5] = MinusAssign(@, D(5))]]

(* point i*count+j2 lies inside a buffer of bb*count points *)
InBuffer(i, j2, bb, count) == i * count + j2 >= 0 /\ i * count + j2 < bb * count

(* One iteration of the loops of lines 138-195.  An index that leads       *)
(* outside the buffers makes the reads and writes of lines 147-165 (or     *)
(* 175-193) undefined: the call is then in no defined state.               *)
ScatterStep ==
    /\ pc = "scatter"
    /\ pos.i < b
    /\ LET j2 == IF pos.dir = 1 THEN idx1_tensor.data[pos.i * n + pos.j]
                 ELSE idx2_tensor.data[pos.i * m + pos.j]
           r  == IF pos.dir = 1
                 THEN ScatterPoint1(pos.i, pos.j, n, m, xyz1_tensor.data, xyz2_tensor.data,
                                    idx1_tensor.data, grad_dist1_tensor.data,
                                    outputs[0].data, outputs[1].data)
                 ELSE ScatterPoint2(pos.i, pos.j, n, m, xyz1_tensor.data, xyz2_tensor.data,
                                    idx2_tensor.data, grad_dist2_tensor.data,
                                    outputs[0].data, outputs[1].data)
       IN  IF InBuffer(pos.i, j2, b, IF pos.dir = 1 THEN m ELSE n)
           THEN /\ outputs' = [outputs EXCEPT ![0].data = r.grad_xyz1,
                                              ![1].data = r.grad_xyz2]
                /\ pos' = LoopPos(pos.i, pos.dir, pos.j + 1, b, n, m)
                /\ events' = [events EXCEPT !.steps = @ + 1, !.writes = @ + 12]
                /\ pc' = "scatter"
           ELSE /\ pc' = "undefined"
                /\ UNCHANGED <<outputs, pos, events>>
    /\ UNCHANGED <<op, dev, inputs, status, b, n, m, call, saved>>

(* line 196: the loops are over, Compute returns *)
ScatterReturn ==
    /\ pc = "scatter"
    /\ pos.i >= b
    /\ pc' = "done"
    /\ UNCHANGED <<op, dev, inputs, outputs, status, b, n, m, pos, call, saved, events>>

-----------------------------------------------------------------------------
(* NnDistance2GradGpuOp::Compute, lines 244-284 (DEVICE_GPU) *)

(* lines 251-262 *)
NnDistance2GradGpuOp_Requires(x1, x2, gd1, i1, gd2, i2) ==
    /\ Len(x1.shape) = 3
    /\ x1.shape[3] = 6
    /\ Len(x2.shape) = 3
    /\ x2.shape[3] = 6
    /\ x2.shape[1] = x1.shape[1]
    /\ gd1.shape = <<x1.shape[1], x1.shape[2]>>
    /\ i1.shape = <<x1.shape[1], x1.shape[2]>>
    /\ gd2.shape = <<x1.shape[1], x2.shape[2]>>
    /\ i2.shape = <<x1.shape[1], x2.shape[2]>>

NnDistance2GradGpuOp_Validate ==
    /\ pc = "start" /\ op = "backward" /\ dev = "GPU"
    /\ IF NnDistance2GradGpuOp_Requires(xyz1_tensor, xyz2_tensor, grad_dist1_tensor,
                                        idx1_tensor, grad_dist2_tensor, idx2_tensor)
       THEN /\ b' = xyz1_tensor.shape[1]
            /\ n' = xyz1_tensor.shape[2]
            /\ m' = xyz2_tensor.shape[2]
            /\ pc' = "alloc"
            /\ UNCHANGED status
       ELSE /\ status' = "InvalidArgument"
            /\ pc' = "done"
            /\ UNCHANGED <<b, n, m>>
    /\ UNCHANGED <<op, dev, inputs, outputs, pos, call, saved, events>>

(* lines 276, 278 *)
NnDistance2GradGpuOp_Allocate ==
    /\ pc = "alloc" /\ op = "backward" /\ dev = "GPU"
    /\ \E g \in Garbage : outputs' = GradOutputs(b, n, m, g)
    /\ events' = [events EXCEPT !.alloc = @ + 2]
    /\ pc' = "launch"
    /\ UNCHANGED <<op, dev, inputs, status, b, n, m, pos, call, saved>>

RECURSIVE SumOver(_, _)
SumOver(S, f) ==
    IF S = {} THEN 0
    ELSE LET x == CHOOSE y \in S : TRUE IN f[x] + SumOver(S \ {x}, f)

(* The gradient of spec section 4.2 for one input: P is the point set,     *)
(* gdP and idxP its upstream gradient and matches, Q, gdQ, idxQ those of   *)
(* the other set.  Element (i,j,c) is the direct term of point j minus     *)
(* the terms of the points of Q matched to j.                              *)
ScatterSum(P, gdP, idxP, Q, gdQ, idxQ) ==
    LET nn == P.shape[2]
        mm == Q.shape[2]
        Val(o) ==
            LET i == (o \div 6) \div nn
                j == (o \div 6) % nn
                c == o % 6
                k == idxP.data[i * nn + j]
                From == { p \in 0..(mm - 1) : idxQ.data[i * mm + p] = j }
                Term == [p \in From |->
                            2 * gdQ.data[i * mm + p]
                              * (Q.data[(i * mm + p) * 6 + c] - P.data[(i * nn + j) * 6 + c])]
            IN  2 * gdP.data[i * nn + j]
                  * (P.data[(i * nn + j) * 6 + c] - Q.data[(i * mm + k) * 6 + c])
                - SumOver(From, Term)
    IN  [o \in 0..(NumElements(P.shape) - 1) |-> Val(o)]

(* line 283: NmDistance2GradKernelLauncher, whose definition (the .cu      *)
(* file) is not part of the sources; it is taken to meet the contract      *)
NmDistance2GradKernelLauncher ==
    /\ pc = "launch" /\ op = "backward" /\ dev = "GPU"
    /\ outputs' = [outputs EXCEPT
           ![0].data = ScatterSum(xyz1_tensor, grad_dist1_tensor, idx1_tensor,
                                  xyz2_tensor, grad_dist2_tensor, idx2_tensor),
           ![1].data = ScatterSum(xyz2_tensor, grad_dist2_tensor, idx2_tensor,
                                  xyz1_tensor, grad_dist1_tensor, idx1_tensor)]
    /\ events' = [events EXCEPT !.steps = @ + 1]
    /\ pc' = "done"
    /\ UNCHANGED <<op, dev, inputs, status, b, n, m, pos, call, saved>>

-----------------------------------------------------------------------------
(* The backward calls: valid inputs with B*(N+M) <= MaxGradTotal and       *)
(* B*N*M <= MaxGradPairs, every index naming a point of the other set,     *)
(* and calls with ill-shaped inputs.                                       *)

GradShapes == { s \in (0..MaxGradTotal) \X (0..MaxGradTotal) \X (0..MaxGradTotal) :
                    /\ s[1] * (s[2] + s[3]) <= MaxGradTotal
                    /\ s[1] * s[2] * s[3] <= MaxGradPairs }

Matrix(bb, nn, vals) == Tensor(<<bb, nn>>, vals)

ValidBackwardInputs ==
    \E s \in GradShapes :
        LET bb == s[1]
            nn == s[2]
            mm == s[3]
        IN  \E p1 \in [0..(bb * nn - 1) -> Points], p2 \in [0..(bb * mm - 1) -> Points],
               gd1 \in [0..(bb * nn - 1) -> GradVals], gd2 \in [0..(bb * mm - 1) -> GradVals],
               i1 \in [0..(bb * nn - 1) -> 0..(mm - 1)], i2 \in [0..(bb * mm - 1) -> 0..(nn - 1)] :
                inputs = <<PointSet(bb, nn, p1), PointSet(bb, mm, p2),
                           Matrix(bb, nn, gd1), Matrix(bb, nn, i1),
                           Matrix(bb, mm, gd2), Matrix(bb, mm, i2)>>

(* The shape contract of spec section 4.2. *)
GradWellShaped(s1, s2, g1, i1, g2, i2) ==
    /\ WellShaped(s1, s2)
    /\ g1 = <<s1[1], s1[2]>> /\ i1 = <<s1[1], s1[2]>>
    /\ g2 = <<s2[1], s2[2]>> /\ i2 = <<s2[1], s2[2]>>

XyzShapePairs == { <<s1, s2>> \in ShapePool \X ShapePool : ~WellShaped(s1, s2) }
                     \cup { << <<1, 2, 6>>, <<1, 1, 6>> >>, << <<2, 1, 6>>, <<2, 2, 6>> >> }

(* shapes of grad_dist and idx tensors for a [bb,nn,6] point set, right and wrong *)
AuxShapes(s) ==
    IF Len(s) < 2 THEN { <<1, 1>> }
    ELSE { <<s[1], s[2]>>, <<s[2], s[1]>>, <<s[1] * s[2]>>, <<s[1], s[2], 1>> }

IllShapedBackwardInputs ==
    \E x \in XyzShapePairs :
        \E g1 \in AuxShapes(x[1]), i1 \in AuxShapes(x[1]),
           g2 \in AuxShapes(x[2]), i2 \in AuxShapes(x[2]) :
            /\ ~GradWellShaped(x[1], x[2], g1, i1, g2, i2)
            /\ inputs = <<Filled(x[1], 0), Filled(x[2], 0), Filled(g1, 0),
                          Filled(i1, 0), Filled(g2, 0), Filled(i2, 0)>>

IdleGradCall ==
    /\ outputs = <<>>
    /\ status = "OK"
    /\ pc = "start"
    /\ b = 0 /\ n = 0 /\ m = 0
    /\ pos = [i |-> 0, dir |-> 1, j |-> 0]
    /\ call = 1
    /\ saved = <<>>
    /\ events = NoEvents

InitGrad ==
    /\ op = "backward"
    /\ dev = "CPU"
    /\ ValidBackwardInputs \/ IllShapedBackwardInputs
    /\ IdleGradCall

NextGrad ==
    \/ NnDistance2GradOp_Validate
    \/ NnDistance2GradOp_Allocate
    \/ ZeroFill
    \/ ScatterStep
    \/ ScatterReturn

SpecGrad == InitGrad /\ [][NextGrad]_vars

(* Backward calls of both op classes, of every shape: the ill-shaped       *)
(* calls, and the well-shaped ones on fixed data.                          *)
PlainBackwardInputs ==
    \E s \in GradShapes :
        /\ s[1] * s[2] = 0 \/ s[3] > 0
        /\ s[1] * s[3] = 0 \/ s[2] > 0
        /\ inputs = <<Filled(<<s[1], s[2], 6>>, 1), Filled(<<s[1], s[3], 6>>, 0),
                      Filled(<<s[1], s[2]>>, 1), Filled(<<s[1], s[2]>>, 0),
                      Filled(<<s[1], s[3]>>, 1), Filled(<<s[1], s[3]>>, 0)>>

InitGradShapes ==
    /\ op = "backward"
    /\ dev \in {"CPU", "GPU"}
    /\ PlainBackwardInputs \/ IllShapedBackwardInputs
    /\ IdleGradCall

NextGradShapes ==
    \/ NextGrad
    \/ NnDistance2GradGpuOp_Validate
    \/ NnDistance2GradGpuOp_Allocate
    \/ NmDistance2GradKernelLauncher

SpecGradShapes == InitGradShapes /\ [][NextGradShapes]_vars

(* forward and backward calls together *)
InitAll == Init \/ InitGrad

NextAll == Next \/ NextGrad

SpecAll == InitAll /\ [][NextAll]_vars

-----------------------------------------------------------------------------
(* Properties of the backward op *)

BackwardShapesOK ==
    GradWellShaped(xyz1_tensor.shape, xyz2_tensor.shape, grad_dist1_tensor.shape,
                   idx1_tensor.shape, grad_dist2_tensor.shape, idx2_tensor.shape)

(* C6: a backward call (CPU or GPU) whose inputs break the shape contract  *)
(* -- grad_dist1 or idx1 not [B,N], grad_dist2 or idx2 not [B,M], or an    *)
(* ill-shaped xyz1/xyz2 -- ends with an invalid-argument failure, with no  *)
(* gradient buffer allocated, zero-filled or accumulated into.             *)
C6_BackwardFailsFast ==
    op = "backward" =>
        /\ (~BackwardShapesOK /\ pc # "start")
               => (pc = "done" /\ status = "InvalidArgument")
        /\ (~BackwardShapesOK \/ status = "InvalidArgument")
               => (DOMAIN outputs = {} /\ events = NoEvents)

(* C6's case: a CPU call failed although only idx2 is ill-shaped ([M,B]    *)
(* for [B,M], with the right number of elements) *)
C6_Witness ==
    /\ op = "backward" /\ dev = "CPU" /\ pc = "done"
    /\ status = "InvalidArgument"
    /\ xyz1_tensor.shape = <<1, 2, 6>> /\ xyz2_tensor.shape = <<1, 1, 6>>
    /\ grad_dist1_tensor.shape = <<1, 2>> /\ idx1_tensor.shape = <<1, 2>>
    /\ grad_dist2_tensor.shape = <<1, 1>> /\ idx2_tensor.shape = <<1, 1, 1>>

(* a CPU backward call has returned successfully *)
BackwardReturned ==
    op = "backward" /\ dev = "CPU" /\ pc = "done" /\ status = "OK"

(* the points of P[i] matched to point k of the other set *)
MatchedTo(idx, i, k) == { p \in Cols(idx) : El2(idx, i, p) = k }

(* grad[i,j,c] of spec section 4.2 for point set P: the direct term minus  *)
(* the sum of the terms of the points of Q matched to j                    *)
ExpectedGrad(P, gdP, idxP, Q, gdQ, idxQ, i, j, c) ==
    LET From == MatchedTo(idxQ, i, j)
        Term == [p \in From |->
                    2 * El2(gdQ, i, p) * (El3(Q, i, p, c) - El3(P, i, j, c))]
    IN  2 * El2(gdP, i, j) * (El3(P, i, j, c) - El3(Q, i, El2(idxP, i, j), c))
        - SumOver(From, Term)

(* C7: for valid backward inputs with in-range indices, grad_xyz1 and      *)
(* grad_xyz2 are the exact sums of both directions' contributions: the     *)
(* direct term of each point minus the sum of the terms of all points of   *)
(* the other set matched to it.                                            *)
C7_GradientSums ==
    BackwardReturned =>
        /\ outputs[0].shape = xyz1_tensor.shape
        /\ outputs[1].shape = xyz2_tensor.shape
        /\ \A i \in Rows(xyz1_tensor), j \in Cols(xyz1_tensor), c \in 0..5 :
               El3(outputs[0], i, j, c) =
                   ExpectedGrad(xyz1_tensor, grad_dist1_tensor, idx1_tensor,
                                xyz2_tensor, grad_dist2_tensor, idx2_tensor, i, j, c)
        /\ \A i \in Rows(xyz2_tensor), k \in Cols(xyz2_tensor), c \in 0..5 :
               El3(outputs[1], i, k, c) =
                   ExpectedGrad(xyz2_tensor, grad_dist2_tensor, idx2_tensor,
                                xyz1_tensor, grad_dist1_tensor, idx1_tensor, i, k, c)

(* C7's case: both points of xyz1 are matched to point 0 of xyz2, which    *)
(* is itself matched to point 1 of xyz1, all three with gradient 1, and    *)
(* the three contributions to grad_xyz2[0,0,0] are non-zero *)
C7_Witness ==
    /\ BackwardReturned
    /\ xyz1_tensor.shape = <<1, 2, 6>> /\ xyz2_tensor.shape = <<1, 2, 6>>
    /\ idx1_tensor.data = [o \in 0..1 |-> 0]
    /\ grad_dist1_tensor.data = [o \in 0..1 |-> 1]
    /\ El2(idx2_tensor, 0, 0) = 1 /\ El2(grad_dist2_tensor, 0, 0) = 1
    /\ El3(xyz1_tensor, 0, 0, 0) # El3(xyz2_tensor, 0, 0, 0)
    /\ El3(xyz1_tensor, 0, 1, 0) # El3(xyz2_tensor, 0, 0, 0)
    /\ El3(outputs[1], 0, 0, 0) = 6
    /\ El3(outputs[1], 0, 0, 5) # 0

(* the inputs and outputs of the scenario of spec section 8 *)
ScenarioXyz ==
    /\ xyz1_tensor = PointSet(1, 1, [o \in {0} |-> <<0, 0, 0, 0, 0, 0>>])
    /\ xyz2_tensor = PointSet(1, 1, [o \in {0} |-> <<1, 0, 0, 0, 0, 0>>])

ScenarioForward ==
    (ForwardReturned /\ call = 1 /\ ScenarioXyz)
        => /\ outputs[0] = Matrix(1, 1, [o \in {0} |-> 1])
           /\ outputs[1] = Matrix(1, 1, [o \in {0} |-> 0])
           /\ outputs[2] = Matrix(1, 1, [o \in {0} |-> 1])
           /\ outputs[3] = Matrix(1, 1, [o \in {0} |-> 0])

ScenarioBackward ==
    (/\ BackwardReturned /\ ScenarioXyz
     /\ grad_dist1_tensor.data = [o \in {0} |-> 1]
     /\ grad_dist2_tensor.data = [o \in {0} |-> 0])
        => /\ outputs[0] = PointSet(1, 1, [o \in {0} |-> <<-2, 0, 0, 0, 0, 0>>])
           /\ outputs[1] = PointSet(1, 1, [o \in {0} |-> <<2, 0, 0, 0, 0, 0>>])

(* point j of xyz1[i] is the only one matched to k = idx1[i,j], and        *)
(* grad_dist2 is zero                                                      *)
SinglePair(i, j) ==
    /\ MatchedTo(idx1_tensor, i, El2(idx1_tensor, i, j)) = {j}
    /\ \A o \in DOMAIN grad_dist2_tensor.data : grad_dist2_tensor.data[o] = 0

(* C8: when j is the only point of xyz1 matched to k = idx1[i,j] and       *)
(* grad_dist2 is zero, grad_xyz1[i,j,c] = -grad_xyz2[i,k,c] for every c;   *)
(* and the scenario xyz1=[0,0,0,0,0,0], xyz2=[1,0,0,0,0,0], gradDist1=[1], *)
(* gradDist2=[0] gives dist1=[1], idx1=[0], dist2=[1], idx2=[0],           *)
(* grad_xyz1=[-2,0,0,0,0,0], grad_xyz2=[2,0,0,0,0,0].                      *)
C8_Antisymmetry ==
    /\ BackwardReturned =>
           \A i \in Rows(xyz1_tensor), j \in Cols(xyz1_tensor) :
               SinglePair(i, j) =>
                   \A c \in 0..5 :
                       El3(outputs[0], i, j, c)
                           = 0 - El3(outputs[1], i, El2(idx1_tensor, i, j), c)
    /\ ScenarioForward
    /\ ScenarioBackward

(* C8's case: in the second batch the single point of xyz1 is matched to   *)
(* the single point of xyz2, grad_dist2 is zero and the gradients of the   *)
(* pair are non-zero in all six coordinates *)
C8_Witness ==
    /\ BackwardReturned
    /\ xyz1_tensor.shape = <<2, 1, 6>> /\ xyz2_tensor.shape = <<2, 1, 6>>
    /\ SinglePair(1, 0)
    /\ \A c \in 0..5 : El3(outputs[0], 1, 0, c) # 0
    /\ \A c \in 0..5 : El3(outputs[0], 1, 0, c) = 0 - El3(outputs[1], 1, 0, c)

-----------------------------------------------------------------------------
(* The two search directions of one forward call as two concurrent         *)
(* processes (spec section 5): after validation and allocation the calls   *)
(* of lines 87 and 88 take their (i,j) iterations in any interleaving.     *)
(* saved keeps the output buffers as allocated.                            *)

ParFork ==
    /\ pc = "search1" /\ op = "forward" /\ dev = "CPU"
    /\ pos = [s1 |-> 0, s2 |-> 0]
    /\ saved = <<>>
    /\ saved' = outputs
    /\ pc' = "par"
    /\ UNCHANGED <<op, dev, inputs, outputs, status, b, n, m, pos, call, events>>

ParSearch1Step ==
    /\ pc = "par"
    /\ Search1Point
    /\ UNCHANGED <<op, dev, inputs, status, pc, b, n, m, call, saved>>

ParSearch2Step ==
    /\ pc = "par"
    /\ Search2Point
    /\ UNCHANGED <<op, dev, inputs, status, pc, b, n, m, call, saved>>

ParJoin ==
    /\ pc = "par"
    /\ pos.s1 >= b * n /\ pos.s2 >= b * m
    /\ pc' = "joined"
    /\ UNCHANGED <<op, dev, inputs, outputs, status, b, n, m, pos, call, saved, events>>

InitPar ==
    /\ op = "forward"
    /\ dev = "CPU"
    /\ ValidForwardInputs
    /\ IdleCall

NextPar ==
    \/ NnDistance2Op_Validate
    \/ NnDistance2Op_Allocate
    \/ ParFork
    \/ ParSearch1Step
    \/ ParSearch2Step
    \/ ParJoin

SpecPar == InitPar /\ [][NextPar]_vars

(* lines 87-88 run one after the other on the buffers out *)
SequentialForward(out) ==
    LET r1 == nnsearch(0, b, n, m, xyz1_tensor.data, xyz2_tensor.data,
                       out[0].data, out[1].data)
        r2 == nnsearch(0, b, m, n, xyz2_tensor.data, xyz1_tensor.data,
                       out[2].data, out[3].data)
    IN  [out EXCEPT ![0].data = r1.dist, ![1].data = r1.idx,
                    ![2].data = r2.dist, ![3].data = r2.idx]

ParReturned == op = "forward" /\ pc = "joined" /\ status = "OK"

(* C9: run as two concurrent processes, the two search directions leave    *)
(* the inputs unchanged, each writes only its own pair of outputs, and     *)
(* under every interleaving of their per-point steps the four outputs are  *)
(* those of running line 87 and then line 88.                              *)
C9_ConcurrentDirections ==
    /\ [](ParReturned => outputs = SequentialForward(saved))
    /\ [][/\ inputs' = inputs
          /\ (pc = "par" /\ pos'.s1 # pos.s1)
                 => (outputs'[2] = outputs[2] /\ outputs'[3] = outputs[3])
          /\ (pc = "par" /\ pos'.s2 # pos.s2)
                 => (outputs'[0] = outputs[0] /\ outputs'[1] = outputs[1])]_vars

(* C9's case: the second direction finished both its points before the    *)
(* first direction took its first step, and the results differ per point   *)
C9_Witness ==
    /\ op = "forward" /\ pc = "par"
    /\ xyz1_tensor.shape = <<1, 2, 6>> /\ xyz2_tensor.shape = <<1, 2, 6>>
    /\ pos = [s1 |-> 0, s2 |-> 2]
    /\ El2(outputs[3], 0, 0) # El2(outputs[3], 0, 1)
    /\ El2(outputs[2], 0, 0) # El2(outputs[2], 0, 1)
    /\ outputs[0] = saved[0]

-----------------------------------------------------------------------------
(* The gradient scatter run by parallel workers (spec sections 4.3, 5):    *)
(* after validation, allocation and the zero fill, the iterations of the   *)
(* first j loop (lines 139-166) are taken by one worker per (batch, source *)
(* point), then those of the second j loop (lines 167-194).  A worker      *)
(* updates its own slot, lines 154-159, by a plain load and a plain store  *)
(* per coordinate, and the slot of the matched point, lines 160-165, by    *)
(* one atomic addition per coordinate.  pos[w] is worker w's position (at: *)
(* 0..11 the loads and stores, 12..17 the atomic additions) and its        *)
(* loaded value; saved is the set of the writes of the running pass.       *)

WorkerSteps == 18

Workers(count) == [w \in 0..(count - 1) |-> [at |-> 0, tmp |-> 0]]

(* the contribution of lines 154-165 (pass 1) or 182-193 (pass 2) of       *)
(* source point w to coordinate c, with the offsets of its own slot and    *)
(* of the matched point's slot                                             *)
Contribution(pass, w, c) ==
    LET nn == IF pass = 1 THEN n ELSE m
        mm == IF pass = 1 THEN m ELSE n
        P  == IF pass = 1 THEN xyz1_tensor.data ELSE xyz2_tensor.data
        Q  == IF pass = 1 THEN xyz2_tensor.data ELSE xyz1_tensor.data
        j2 == IF pass = 1 THEN idx1_tensor.data[w] ELSE idx2_tensor.data[w]
        gd == IF pass = 1 THEN grad_dist1_tensor.data[w] ELSE grad_dist2_tensor.data[w]
        o1 == w * 6
        o2 == ((w \div nn) * mm + j2) * 6
    IN  [own |-> o1 + c, other |-> o2 + c,
         val |-> Gradient(gd) * (P[o1 + c] - Q[o2 + c])]

AtomicAdd(buf, o, v) == [buf EXCEPT ![o] = @ + v]

ScatterFork ==
    /\ pc = "scatter" /\ op = "backward" /\ dev = "CPU"
    /\ pos = LoopPos(0, 1, 0, b, n, m)
    /\ pc' = "pass1"
    /\ pos' = Workers(b * n)
    /\ saved' = {}
    /\ UNCHANGED <<op, dev, inputs, outputs, status, b, n, m, call, events>>

WorkerStep(w) ==
    /\ pc \in {"pass1", "pass2"}
    /\ pos[w].at < WorkerSteps
    /\ LET pass == IF pc = "pass1" THEN 1 ELSE 2
           own  == IF pass = 1 THEN 0 ELSE 1
           at   == pos[w].at
           k    == IF at < 12 THEN Contribution(pass, w, at \div 2)
                   ELSE Contribution(pass, w, at - 12)
       IN  IF at < 12 /\ at % 2 = 0
           THEN (* load of the own slot *)
                /\ pos' = [pos EXCEPT ![w] = [at |-> at + 1, tmp |-> outputs[own].data[k.own]]]
                /\ UNCHANGED <<outputs, saved, events>>
           ELSE IF at < 12
           THEN (* store to the own slot *)
                /\ outputs' = [outputs EXCEPT ![own].data[k.own] = pos[w].tmp + k.val]
                /\ pos' = [pos EXCEPT ![w] = [at |-> at + 1, tmp |-> 0]]
                /\ saved' = saved \cup {[w |-> w, buf |-> own, off |-> k.own, atomic |-> FALSE]}
                /\ events' = [events EXCEPT !.writes = @ + 1]
           ELSE (* atomic addition to the matched point's slot *)
                /\ outputs' = [outputs EXCEPT
                                   ![1 - own].data = AtomicAdd(@, k.other, 0 - k.val)]
                /\ pos' = [pos EXCEPT ![w] = [at |-> at + 1, tmp |-> 0]]
                /\ saved' = saved \cup {[w |-> w, buf |-> 1 - own, off |-> k.other, atomic |-> TRUE]}
                /\ events' = [events EXCEPT !.writes = @ + 1]
    /\ UNCHANGED <<op, dev, inputs, status, pc, b, n, m, call>>

Work == \E w \in DOMAIN pos : WorkerStep(w)

AllWorkersDone == \A w \in DOMAIN pos : pos[w].at = WorkerSteps

Pass1Join ==
    /\ pc = "pass1"
    /\ AllWorkersDone
    /\ pc' = "pass2"
    /\ pos' = Workers(b * m)
    /\ saved' = {}
    /\ UNCHANGED <<op, dev, inputs, outputs, status, b, n, m, call, events>>

Pass2Join ==
    /\ pc = "pass2"
    /\ AllWorkersDone
    /\ pc' = "joined"
    /\ UNCHANGED <<op, dev, inputs, outputs, status, b, n, m, pos, call, saved, events>>

(* Backward inputs for the parallel scatter: every in-range index          *)
(* assignment for B*(N+M) <= MaxScatterTotal, on fixed point sets and      *)
(* gradients whose contributions are non-zero.                             *)
ScatterShapes == { s \in (0..MaxScatterTotal) \X (0..MaxScatterTotal) \X (0..MaxScatterTotal) :
                       s[1] * (s[2] + s[3]) <= MaxScatterTotal }

ScatterInputs ==
    \E s \in ScatterShapes :
        LET bb == s[1]
            nn == s[2]
            mm == s[3]
            p1 == [o \in 0..(bb * nn - 1) |->
                      IF o % 2 = 0 THEN <<0, 0, 0, 0, 0, 0>> ELSE <<1, 0, 0, 0, 0, 0>>]
            p2 == [o \in 0..(bb * mm - 1) |-> <<1, 1, -1, 2, 1, -2>>]
            gd1 == [o \in 0..(bb * nn - 1) |-> 1 + (o % 2)]
            gd2 == [o \in 0..(bb * mm - 1) |-> 2 - (o % 2)]
        IN  \E i1 \in [0..(bb * nn - 1) -> 0..(mm - 1)], i2 \in [0..(bb * mm - 1) -> 0..(nn - 1)] :
                inputs = <<PointSet(bb, nn, p1), PointSet(bb, mm, p2),
                           Matrix(bb, nn, gd1), Matrix(bb, nn, i1),
                           Matrix(bb, mm, gd2), Matrix(bb, mm, i2)>>

InitScatter ==
    /\ op = "backward"
    /\ dev = "CPU"
    /\ ScatterInputs
    /\ IdleGradCall

NextScatter ==
    \/ NnDistance2GradOp_Validate
    \/ NnDistance2GradOp_Allocate
    \/ ZeroFill
    \/ ScatterFork
    \/ Work
    \/ Pass1Join
    \/ Pass2Join

SpecScatter == InitScatter /\ [][NextScatter]_vars

(* lines 138-195 run by one thread on the zero-filled buffers g1 and g2,   *)
(* from loop position p on                                                 *)
RECURSIVE SequentialScatter(_, _, _)
SequentialScatter(p, g1, g2) ==
    IF p.i >= b THEN [grad_xyz1 |-> g1, grad_xyz2 |-> g2]
    ELSE LET r == IF p.dir = 1
                  THEN ScatterPoint1(p.i, p.j, n, m, xyz1_tensor.data, xyz2_tensor.data,
                                     idx1_tensor.data, grad_dist1_tensor.data, g1, g2)
                  ELSE ScatterPoint2(p.i, p.j, n, m, xyz1_tensor.data, xyz2_tensor.data,
                                     idx2_tensor.data, grad_dist2_tensor.data, g1, g2)
         IN  SequentialScatter(LoopPos(p.i, p.dir, p.j + 1, b, n, m),
                               r.grad_xyz1, r.grad_xyz2)

Zeroed(buf) == [o \in DOMAIN buf |-> 0]

-----------------------------------------------------------------------------
(* Properties of the steps of the CPU backward op *)

AllZero(t) == \A o \in DOMAIN t.data : t.data[o] = 0

BackwardRunning == op = "backward" /\ dev = "CPU" /\ status = "OK"

(* C12: in a backward call every element of grad_xyz1 and of grad_xyz2 is  *)
(* zero when the accumulation starts, whatever the buffers held when       *)
(* allocated, and no accumulation step runs before the zero fill; the      *)
(* returned gradients are those of the scatter run on zero buffers, and    *)
(* are all zero when grad_dist1 and grad_dist2 are all zero.               *)
C12_ZeroFilledBeforeAccumulation ==
    BackwardRunning =>
        /\ (pc = "scatter" /\ events.steps = 0)
               => (AllZero(outputs[0]) /\ AllZero(outputs[1]))
        /\ (pc \in {"start", "alloc", "zero"}) => events.steps = 0
        /\ pc = "done" =>
               LET r == SequentialScatter(LoopPos(0, 1, 0, b, n, m),
                                          Zeroed(outputs[0].data), Zeroed(outputs[1].data))
               IN  outputs[0].data = r.grad_xyz1 /\ outputs[1].data = r.grad_xyz2
        /\ (pc = "done" /\ AllZero(grad_dist1_tensor) /\ AllZero(grad_dist2_tensor))
               => (AllZero(outputs[0]) /\ AllZero(outputs[1]))

(* C12's case: two accumulation steps ran on two distinct points with zero *)
(* upstream gradients, after the fill of 12 elements, and the call         *)
(* returned all-zero gradients                                             *)
C12_Witness ==
    /\ BackwardRunning /\ pc = "done"
    /\ xyz1_tensor.shape = <<1, 1, 6>> /\ xyz2_tensor.shape = <<1, 1, 6>>
    /\ xyz1_tensor.data # xyz2_tensor.data
    /\ AllZero(grad_dist1_tensor) /\ AllZero(grad_dist2_tensor)
    /\ events.steps = 2 /\ events.writes = 12 + 24
    /\ AllZero(outputs[0]) /\ AllZero(outputs[1])

-----------------------------------------------------------------------------
(* Backward calls on the CPU whose inputs pass every shape check and whose *)
(* idx1, idx2 hold arbitrary integers: lines 102-113 check the shapes of   *)
(* the index tensors, nothing checks their values.                         *)

IdxVals == {-1, 0, 1, 2}

AnyIndexBackwardInputs ==
    \E s \in GradShapes :
        LET bb == s[1]
            nn == s[2]
            mm == s[3]
        IN  \E gd1 \in [0..(bb * nn - 1) -> GradVals], gd2 \in [0..(bb * mm - 1) -> GradVals],
               i1 \in [0..(bb * nn - 1) -> IdxVals], i2 \in [0..(bb * mm - 1) -> IdxVals] :
                inputs = <<Filled(<<bb, nn, 6>>, 1), Filled(<<bb, mm, 6>>, 0),
                           Matrix(bb, nn, gd1), Matrix(bb, nn, i1),
                           Matrix(bb, mm, gd2), Matrix(bb, mm, i2)>>

InitGradAnyIdx ==
    /\ op = "backward"
    /\ dev = "CPU"
    /\ AnyIndexBackwardInputs
    /\ IdleGradCall

SpecGradAnyIdx == InitGradAnyIdx /\ [][NextGrad]_vars

(* C13: in a backward call whose inputs pass all shape checks, every       *)
(* offset the CPU scatter reads from xyz1/xyz2 and writes to grad_xyz1/    *)
(* grad_xyz2 lies inside that buffer, whatever integers idx1 and idx2      *)
(* hold: no step leaves the buffers.                                       *)
C13_ScatterOffsetsInBounds ==
    (BackwardRunning /\ BackwardShapesOK) => pc # "undefined"

(* the sum over the points j of t[i,j,c] *)
BatchSum(t, i, c) == SumOver(Cols(t), [j \in Cols(t) |-> El3(t, i, j, c)])

(* C14: from the zero fill on, after every accumulation step and at the    *)
(* return, for each batch i and coordinate c the sum over the points of    *)
(* grad_xyz1[i,*,c] plus the sum over the points of grad_xyz2[i,*,c] is    *)
(* zero, for every in-range index assignment.                              *)
C14_GradientConservation ==
    (BackwardRunning /\ pc \in {"scatter", "done"}) =>
        \A i \in Rows(outputs[0]), c \in 0..5 :
            BatchSum(outputs[0], i, c) + BatchSum(outputs[1], i, c) = 0

(* C14's case: between the two passes of a batch, both points of xyz1      *)
(* have added a non-zero term to their own slot and subtracted it from the *)
(* slot of the one point of xyz2, which has its own term still to add      *)
C14_Witness ==
    /\ BackwardRunning /\ pc = "scatter"
    /\ xyz1_tensor.shape = <<1, 2, 6>> /\ xyz2_tensor.shape = <<1, 1, 6>>
    /\ events.steps = 2 /\ pos.dir = 2
    /\ El2(grad_dist2_tensor, 0, 0) = 1
    /\ El3(outputs[0], 0, 0, 0) = 2 /\ El3(outputs[0], 0, 1, 0) = 2
    /\ El3(outputs[1], 0, 0, 0) = 0 - 4

====
